---- MODULE Spec2Model ----
(***************************************************************************)
(* A model of fits2points.py: the command-line entry point and the         *)
(* conversion pipeline generate_punch_text_file, which turns a FITS image  *)
(* into a text list of points (header date line + one line per kept pixel).*)
(*                                                                         *)
(* Numbers.  Python floats are modelled in fixed point:                    *)
(*   raw samples        integers in units of 1e-18 (so 1e-15 is 1000);     *)
(*   normalized samples integers in units of 1e-3  (raw / S10_COEFF);      *)
(*   header scalars     integers in units of 1e-2  (CRPIXn, CDELTn);       *)
(*   anchor position    integers in units of 1e-2 degree;                  *)
(*   grid coordinates   integers in units of 1e-4 degree;                  *)
(*   printed fields     integers in units of 1e-2 (the ":6.2f" format).    *)
(* NaN and the two infinities are separate values with IEEE comparisons.   *)
(***************************************************************************)
EXTENDS Integers, Sequences, FiniteSets, TLC

(***************************************************************************)
(* Bounds of the model.                                                    *)
(***************************************************************************)
\* the largest length of one axis of the array stored in the file
MaxAxis == 3
\* the largest number of axes of the array stored in the file
MaxDims == 3
\* the largest step of the pattern that fills the image with sample values
MaxStride == 2

(***************************************************************************)
(* Sample values: finite numbers, NaN, +inf, -inf.                         *)
(***************************************************************************)
Num(n) == [k |-> "num", v |-> n]
NaN == [k |-> "nan", v |-> 0]
PosInf == [k |-> "inf", v |-> 1]
NegInf == [k |-> "inf", v |-> -1]

\* S10_COEFF = 4.5e-16, in units of 1e-18
S10_COEFF == 450
\* the saturation threshold of the mask, in whole normalized units
SATURATION_THRESHOLD == 2000
\* normalized samples are kept in thousandths
Milli == 10 * 100

\* The raw sample values an image is filled with: kept ones (1e-15, just below
\* the threshold, the smallest positive step) between excluded ones (zero, NaN,
\* exactly the threshold, negative, the infinities, above the threshold).
RawVals ==
  << Num(1000), Num(0), Num(899999), NaN, Num(900000),
     Num(450), Num(-450), PosInf, Num(900450), NegInf >>

\* elementwise true division by a positive finite constant (IEEE: NaN and the
\* infinities pass through), result in thousandths
Normalize(x) ==
  IF x.k = "num" THEN Num((x.v * Milli) \div S10_COEFF) ELSE x

\* IEEE comparisons of a normalized sample with a finite number of whole units
GreaterThan(x, c) ==
  CASE x.k = "num" -> x.v > c * Milli
    [] x.k = "inf" -> x.v > 0
    [] OTHER -> FALSE

LessThan(x, c) ==
  CASE x.k = "num" -> x.v < c * Milli
    [] x.k = "inf" -> x.v < 0
    [] OTHER -> FALSE

IsNaN(x) == x.k = "nan"

\* the element of valid_mask for one normalized sample
\* (a variant that keeps a sample equal to the threshold)
ValidMaskAlt(x) == GreaterThan(x, 0) /\ ~IsNaN(x) /\ ~GreaterThan(x, SATURATION_THRESHOLD)
ValidMask(x) == GreaterThan(x, 0) /\ ~IsNaN(x) /\ LessThan(x, SATURATION_THRESHOLD)

\* n / q rounded to the nearest integer, ties to even (q > 0)
RoundDiv(n, q) ==
  LET f == n \div q
      r == n % q
  IN  IF 2 * r < q THEN f
      ELSE IF 2 * r > q THEN f + 1
      ELSE IF f % 2 = 0 THEN f ELSE f + 1

(***************************************************************************)
(* Paths and the file system.                                              *)
(***************************************************************************)
\* a path is a sequence of pieces; ".fits" is the piece str.replace looks for
Paths == { <<"img", ".fits">>, <<"img", ".fit">>, <<"obs", ".fits", ".gz">> }

\* input_file.replace(".fits", ".txt"): every occurrence is replaced
ReplaceExt(p) == [i \in 1..Len(p) |-> IF p[i] = ".fits" THEN ".txt" ELSE p[i]]

AllPaths == Paths \cup { ReplaceExt(p) : p \in Paths }

NoFile == [kind |-> "none", lines |-> <<>>]
FitsFile == [kind |-> "fits", lines |-> <<>>]
TextFile(ls) == [kind |-> "text", lines |-> ls]

(***************************************************************************)
(* The header and the image stored in the input file.                      *)
(***************************************************************************)
Absent == [has |-> FALSE, v |-> 0]
Card(x) == [has |-> TRUE, v |-> x]
NoDate == [has |-> FALSE, v |-> ""]

FallbackText == "2025-08-31T04:24:29.132"
OtherText == "2024-01-01T00:00:00.000"
GarbageText == "not-a-date"

DateCards == { NoDate, Card(""), Card(GarbageText), Card(FallbackText), Card(OtherText) }

\* CDELT1/CDELT2 and CRPIX1/CRPIX2, present or absent (hundredths)
Headers ==
  { [date |-> d, cdelt1 |-> c[1], cdelt2 |-> c[2], crpix1 |-> r[1], crpix2 |-> r[2]] :
      d \in DateCards,
      c \in { <<Absent, Absent>>, <<Card(50), Card(-25)>> },
      r \in { <<Absent, Absent>>, <<Card(200), Card(150)>> } }

NoHeader == [date |-> NoDate, cdelt1 |-> Absent, cdelt2 |-> Absent,
             crpix1 |-> Absent, crpix2 |-> Absent]

\* header.get(key, default)
HeaderGet(card, default) == IF card.has THEN card.v ELSE default

\* the shapes of hdul[0].data; <<>> stands for a primary HDU with no array (None)
Shapes == UNION { [1..d -> 1..MaxAxis] : d \in 0..MaxDims }

RECURSIVE Prod(_)
Prod(s) == IF s = <<>> THEN 1 ELSE Head(s) * Prod(Tail(s))

\* the samples of the file's array in C order
Pixels(n, seed, stride) ==
  [i \in 1..n |-> RawVals[((seed + (i - 1) * stride) % Len(RawVals)) + 1]]

NonSingleton(n) == n # 1
\* numpy squeeze(): every axis of length 1 is removed
Squeeze(shape) == SelectSeq(shape, NonSingleton)

\* the squeezed array as rows of columns, indexed from 0
Reshape(px, h, w) == [y \in 0..(h - 1) |-> [x \in 0..(w - 1) |-> px[y * w + x + 1]]]

\* ndarray.flatten(): row-major order
Flatten(a, h, w) == [i \in 1..(h * w) |-> a[(i - 1) \div w][(i - 1) % w]]

(***************************************************************************)
(* Time and the ephemeris (astropy).                                       *)
(***************************************************************************)
NoTime == [year |-> 0, day |-> 0, ms |-> 0]

\* Time(date_obs): the instant as year, days since January 1st, milliseconds
\* of the day; ok is FALSE when astropy raises
ParseTime(s) ==
  CASE s = FallbackText -> [ok |-> TRUE, t |-> [year |-> 2025, day |-> 242, ms |-> 15869132]]
    [] s = OtherText -> [ok |-> TRUE, t |-> [year |-> 2024, day |-> 0, ms |-> 0]]
    [] OTHER -> [ok |-> FALSE, t |-> NoTime]

\* the literal the code falls back to
\* (a variant with another literal)
DefaultDateObsAlt == OtherText
DefaultDateObs == FallbackText

\* "if not date_obs": None and the empty string are falsy
\* (a variant that tests "is None")
IsFalsyAlt(card) == ~card.has
IsFalsy(card) == ~card.has \/ card.v = ""

\* get_sun(t): right ascension and declination of the Sun, hundredths of a degree
get_sun(t) ==
  IF t.year = 2025 THEN [ra |-> 15960, dec |-> 860] ELSE [ra |-> 28050, dec |-> -2305]

NoSun == [ra |-> 0, dec |-> 0]

(***************************************************************************)
(* The grid, the mask, the date string and the output lines.               *)
(***************************************************************************)
\* sun + (pixel - (crpix - 1)) * cdelt, in 1e-4 degree
\* (a variant without the one-based correction)
GridCoordAlt(anchor, pixel, crpix, cdelt) ==
  anchor * 100 + (pixel * 100 - crpix) * cdelt
GridCoord(anchor, pixel, crpix, cdelt) ==
  anchor * 100 + (pixel * 100 - (crpix - 100)) * cdelt

\* arr[mask]: the elements whose mask is true, in order
RECURSIVE MaskFrom(_, _, _)
MaskFrom(arr, mask, i) ==
  IF i > Len(arr) THEN <<>>
  ELSE (IF mask[i] THEN <<arr[i]>> ELSE <<>>) \o MaskFrom(arr, mask, i + 1)

RECURSIVE Reversed(_)
Reversed(s) == IF s = <<>> THEN <<>> ELSE Append(Reversed(Tail(s)), Head(s))

\* (a variant that loses the order)
ApplyMaskAlt(arr, mask) == Reversed(MaskFrom(arr, mask, 1))
ApplyMask(arr, mask) == MaskFrom(arr, mask, 1)

\* f"{t_dt.year} {doy_fraction:.8f}": the year, the whole days + 1, and the
\* fraction of the day in units of 1e-8 day (ms / 86400000 = ms * 125 / 108 e-8)
DateString(t) ==
  [tag |-> "date", c1 |-> t.year, c2 |-> t.day + 1, c3 |-> RoundDiv(t.ms * 125, 108)]

NoDateString == [tag |-> "", c1 |-> 0, c2 |-> 0, c3 |-> 0]

\* f"{cam_id}  {r:6.2f} {d:6.2f}  {b:6.2f}"
RecordLine(cam_id, r, d, b) ==
  [tag |-> cam_id, c1 |-> RoundDiv(r, 100), c2 |-> RoundDiv(d, 100), c3 |-> RoundDiv(b.v, 10)]

Min(a, b) == IF a < b THEN a ELSE b

\* the lines the with-block writes: the date line, then zip(clean_ra, clean_dec, clean_data)
OutputLines(ds, cam_id, ra, dec, dat) ==
  <<ds>> \o [i \in 1..Min(Len(ra), Min(Len(dec), Len(dat))) |->
               RecordLine(cam_id, ra[i], dec[i], dat[i])]

(***************************************************************************)
(* The stages as functions of the image and the header.                    *)
(***************************************************************************)
\* the text Time() is given: the header's value, or the literal when it is falsy
DateObsOf(hdr) == IF IsFalsy(hdr.date) THEN DefaultDateObs ELSE hdr.date.v

\* crpix defaults to width / 2 and height / 2 (true division), cdelt to 1.0
RaMap(h, w, hdr, s) ==
  LET cdelt1 == HeaderGet(hdr.cdelt1, 100)
      crpix1 == HeaderGet(hdr.crpix1, (w * 100) \div 2)
  IN  [y \in 0..(h - 1) |-> [x \in 0..(w - 1) |-> GridCoord(s.ra, x, crpix1, cdelt1)]]

DecMap(h, w, hdr, s) ==
  LET cdelt2 == HeaderGet(hdr.cdelt2, 100)
      crpix2 == HeaderGet(hdr.crpix2, (h * 100) \div 2)
  IN  [y \in 0..(h - 1) |-> [x \in 0..(w - 1) |-> GridCoord(s.dec, y, crpix2, cdelt2)]]

S10Data(d, h, w) == [y \in 0..(h - 1) |-> [x \in 0..(w - 1) |-> Normalize(d[y][x])]]

MaskOf(fd) == [i \in 1..Len(fd) |-> ValidMask(fd[i])]

CamId == "L3"

\* what a run that meets no failure leaves in the output file
CompleteDocument(d, h, w, hdr) ==
  LET tt == ParseTime(DateObsOf(hdr)).t
      s == get_sun(tt)
      fd == Flatten(S10Data(d, h, w), h, w)
      m == MaskOf(fd)
  IN  OutputLines(DateString(tt), CamId,
                  ApplyMask(Flatten(RaMap(h, w, hdr, s), h, w), m),
                  ApplyMask(Flatten(DecMap(h, w, hdr, s), h, w), m),
                  ApplyMask(fd, m))

(***************************************************************************)
(* State.                                                                  *)
(***************************************************************************)
VARIABLES
  argv,         \* sys.argv[1:]
  fs,           \* the files at the paths the run may touch
  pc,           \* the stage about to run, or how the run ended
  exit_code,    \* -1 while running, then the process's exit status
  err,          \* the kind of failure that ended the run, "none" otherwise
  stdout,       \* the messages printed so far
  input_fits, output_txt,
  hduShape,     \* hdul[0].data.shape as stored in the file
  header, data, height, width,
  t, sun,
  ra_map, dec_map, s10_data,
  flat_ra, flat_dec, flat_data,
  valid_mask, clean_ra, clean_dec, clean_data,
  date_string

io == <<argv, fs, exit_code, err, stdout, input_fits, output_txt>>
image == <<hduShape, header, data, height, width>>
anchor == <<t, sun>>
grid == <<ra_map, dec_map>>
flat == <<s10_data, flat_ra, flat_dec, flat_data>>
clean == <<valid_mask, clean_ra, clean_dec, clean_data>>
vars == <<argv, fs, pc, exit_code, err, stdout, input_fits, output_txt,
          hduShape, header, data, height, width, t, sun, ra_map, dec_map,
          s10_data, flat_ra, flat_dec, flat_data, valid_mask, clean_ra,
          clean_dec, clean_data, date_string>>

Init ==
  /\ \E p \in Paths, exists \in BOOLEAN, hasArg \in BOOLEAN :
       /\ argv = IF hasArg THEN <<p>> ELSE <<>>
       /\ fs = [q \in AllPaths |-> IF q = p /\ exists THEN FitsFile ELSE NoFile]
  /\ pc = "main"
  /\ exit_code = -1
  /\ err = "none"
  /\ stdout = <<>>
  /\ input_fits = <<>>
  /\ output_txt = <<>>
  /\ hduShape = <<>>
  /\ header = NoHeader
  /\ data = <<>>
  /\ height = 0
  /\ width = 0
  /\ t = NoTime
  /\ sun = NoSun
  /\ ra_map = <<>>
  /\ dec_map = <<>>
  /\ s10_data = <<>>
  /\ flat_ra = <<>>
  /\ flat_dec = <<>>
  /\ flat_data = <<>>
  /\ valid_mask = <<>>
  /\ clean_ra = <<>>
  /\ clean_dec = <<>>
  /\ clean_data = <<>>
  /\ date_string = NoDateString

(***************************************************************************)
(* How a stage ends the run.                                               *)
(***************************************************************************)
\* an exception nobody catches: the interpreter exits with status 1
Raise(kind) ==
  /\ pc' = "raised"
  /\ err' = kind
  /\ exit_code' = 1

\* the except clause of stage 2: print the error and return
\* (a variant that swallows the error and goes on)
OnSunErrorAlt == "grid"
OnSunError == "returned"

CaughtReturn(kind) ==
  /\ pc' = OnSunError
  /\ err' = kind
  /\ exit_code' = IF OnSunError = "returned" THEN 0 ELSE exit_code
  /\ stdout' = Append(stdout, "Critical Error")

(***************************************************************************)
(* The entry point.                                                        *)
(***************************************************************************)
Main ==
  /\ pc = "main"
  /\ IF Len(argv) > 0
     THEN /\ input_fits' = argv[1]
          /\ output_txt' = ReplaceExt(argv[1])
          /\ pc' = "load"
          /\ UNCHANGED <<exit_code, stdout>>
     ELSE /\ stdout' = Append(stdout, "Usage")
          /\ pc' = "usage"
          /\ exit_code' = 0
          /\ UNCHANGED <<input_fits, output_txt>>
  /\ UNCHANGED <<argv, fs, err, image, anchor, grid, flat, clean, date_string>>

(***************************************************************************)
(* Stage 1: open the file, take the array and the header, squeeze.         *)
(***************************************************************************)
Load ==
  /\ pc = "load"
  /\ stdout' = Append(stdout, "Reading")
  /\ IF fs[input_fits].kind # "fits"
     THEN /\ Raise("LoadError")
          /\ UNCHANGED image
     ELSE \E shape \in Shapes, seed \in 0..(Len(RawVals) - 1), stride \in 1..MaxStride,
             hdr \in Headers :
            /\ hduShape' = shape
            /\ IF shape # <<>> /\ Len(Squeeze(shape)) = 2
               THEN /\ height' = Squeeze(shape)[1]
                    /\ width' = Squeeze(shape)[2]
                    /\ data' = Reshape(Pixels(Prod(shape), seed, stride),
                                       Squeeze(shape)[1], Squeeze(shape)[2])
                    /\ header' = hdr
                    /\ pc' = "time"
                    /\ UNCHANGED <<err, exit_code>>
               ELSE /\ Raise("LoadError")
                    /\ UNCHANGED <<header, data, height, width>>
  /\ UNCHANGED <<argv, fs, input_fits, output_txt, anchor, grid, flat, clean, date_string>>

(***************************************************************************)
(* Stage 2: the observation time and the Sun's position (one try block).   *)
(***************************************************************************)
ResolveTime ==
  /\ pc = "time"
  /\ LET date_obs == DateObsOf(header)
         warned == IF IsFalsy(header.date) THEN Append(stdout, "Warning") ELSE stdout
         parsed == ParseTime(date_obs)
     IN  IF parsed.ok
         THEN /\ t' = parsed.t
              /\ stdout' = warned
              /\ pc' = "anchor"
              /\ UNCHANGED <<err, exit_code>>
         ELSE /\ pc' = OnSunError
              /\ err' = "TimeParseError"
              /\ exit_code' = IF OnSunError = "returned" THEN 0 ELSE exit_code
              /\ stdout' = Append(warned, "Critical Error")
              /\ UNCHANGED t
  /\ UNCHANGED <<argv, fs, input_fits, output_txt, image, sun, grid, flat, clean, date_string>>

ComputeAnchor ==
  /\ pc = "anchor"
  /\ \E ok \in BOOLEAN :
       IF ok
       THEN /\ sun' = get_sun(t)
            /\ stdout' = Append(stdout, "Sun Position")
            /\ pc' = "grid"
            /\ UNCHANGED <<err, exit_code>>
       ELSE /\ CaughtReturn("EphemerisError")
            /\ UNCHANGED sun
  /\ UNCHANGED <<argv, fs, input_fits, output_txt, image, t, grid, flat, clean, date_string>>

(***************************************************************************)
(* Stage 3: the linear grid.                                               *)
(***************************************************************************)
BuildGrid ==
  /\ pc = "grid"
  /\ ra_map' = RaMap(height, width, header, sun)
  /\ dec_map' = DecMap(height, width, header, sun)
  /\ stdout' = Append(stdout, "Mapping")
  /\ pc' = "convert"
  /\ UNCHANGED <<argv, fs, exit_code, err, input_fits, output_txt, image, anchor,
                 flat, clean, date_string>>

(***************************************************************************)
(* Stage 4: brightness in S10 units, and the three flattened arrays.       *)
(***************************************************************************)
Convert ==
  /\ pc = "convert"
  /\ s10_data' = S10Data(data, height, width)
  /\ flat_ra' = Flatten(ra_map, height, width)
  /\ flat_dec' = Flatten(dec_map, height, width)
  /\ flat_data' = Flatten(s10_data', height, width)
  /\ pc' = "filter"
  /\ UNCHANGED <<io, image, anchor, grid, clean, date_string>>

(***************************************************************************)
(* Stage 5: the mask, applied to the three arrays.                         *)
(***************************************************************************)
Filter ==
  /\ pc = "filter"
  /\ valid_mask' = MaskOf(flat_data)
  /\ clean_ra' = ApplyMask(flat_ra, valid_mask')
  /\ clean_dec' = ApplyMask(flat_dec, valid_mask')
  /\ clean_data' = ApplyMask(flat_data, valid_mask')
  /\ pc' = "date"
  /\ UNCHANGED <<io, image, anchor, grid, flat, date_string>>

(***************************************************************************)
(* Stage 6: the date line.                                                 *)
(***************************************************************************)
FormatDate ==
  /\ pc = "date"
  /\ date_string' = DateString(t)
  /\ pc' = "write"
  /\ UNCHANGED <<io, image, anchor, grid, flat, clean>>

(***************************************************************************)
(* Stage 7: the output file.  open(.., 'w') creates or truncates the file; *)
(* a failed write leaves the lines written before it.                      *)
(***************************************************************************)
WriteOutput ==
  /\ pc = "write"
  /\ LET lines == OutputLines(date_string, CamId, clean_ra, clean_dec, clean_data)
     IN  \/ \* open() raises: nothing is created
            /\ Raise("WriteError")
            /\ stdout' = Append(stdout, "Writing")
            /\ UNCHANGED fs
         \/ \* a write raises after k lines reached the file
            \E k \in 0..(Len(lines) - 1) :
              /\ fs' = [fs EXCEPT ![output_txt] = TextFile(SubSeq(lines, 1, k))]
              /\ Raise("WriteError")
              /\ stdout' = Append(stdout, "Writing")
         \/ \* every line is written and the file is closed
            /\ fs' = [fs EXCEPT ![output_txt] = TextFile(lines)]
            /\ stdout' = stdout \o <<"Writing", "Done">>
            /\ pc' = "done"
            /\ exit_code' = 0
            /\ UNCHANGED err
  /\ UNCHANGED <<argv, input_fits, output_txt, image, anchor, grid, flat, clean, date_string>>

Next ==
  \/ Main
  \/ Load
  \/ ResolveTime
  \/ ComputeAnchor
  \/ BuildGrid
  \/ Convert
  \/ Filter
  \/ FormatDate
  \/ WriteOutput

Spec == Init /\ [][Next]_vars

(***************************************************************************)
(* Properties.                                                             *)
(***************************************************************************)
Ended == pc \in {"done", "returned", "raised", "usage"}
\* stage 1 succeeded: the image and the header are in memory
Loaded == height > 0
NPix == height * width
\* the raw sample at row-major index i = y * width + x + 1
PixelAt(i) == data[(i - 1) \div width][(i - 1) % width]
\* raw / S10_COEFF is finite, greater than 0 and less than the threshold
Survives(x) == x.k = "num" /\ x.v > 0 /\ x.v < SATURATION_THRESHOLD * S10_COEFF
Survivors == { i \in 1..NPix : Survives(PixelAt(i)) }
Filtered == pc \in {"date", "write", "done"} \/ err = "WriteError"

C1_EmptyWitness ==
  /\ pc = "done"
  /\ Survivors = {}
  /\ Len(fs[output_txt].lines) = 1

\* C2 (as claimed): a run that got past the entry point ends either without
\* failure and with the complete document at the destination, or with a
\* failure and no output document at the destination.
C2_NoPartialOutput ==
  (Ended /\ pc # "usage") =>
    \/ /\ err = "none"
       /\ fs[output_txt] = TextFile(CompleteDocument(data, height, width, header))
    \/ /\ err # "none"
       /\ fs[output_txt].kind # "text"

\* C3 (as claimed): a DATE-OBS that is present and not a timestamp ends the
\* run with a TimeParseError the caller sees (non-zero exit status), the
\* fallback instant is not used and no output file is created.
C3_MalformedDateAborts ==
  (Ended /\ Loaded /\ header.date = Card(GarbageText)) =>
    /\ err = "TimeParseError"
    /\ pc = "raised"
    /\ exit_code # 0
    /\ t = NoTime
    /\ fs[output_txt].kind # "text"

\* the instant 2025-08-31T04:24:29.132
FallbackInstant == [year |-> 2025, day |-> 242, ms |-> 15869132]

\* A run whose DATE-OBS is `card` goes the way of the fallback: the time stage
\* does not fail, it warns and resolves the fallback instant; the run ends
\* only by completing or by a failure of the ephemeris or of the write; and a
\* completed run leaves the document of the same image with DATE-OBS set to
\* the fallback instant (and with DATE-OBS set to `like`).
TakesFallback(card, like) ==
  (Loaded /\ header.date = card) =>
    /\ err # "TimeParseError"
    /\ pc # "time" =>
         /\ t = FallbackInstant
         /\ \E i \in 1..Len(stdout) : stdout[i] = "Warning"
    /\ Ended => (pc = "done" \/ err \in {"EphemerisError", "WriteError"})
    /\ pc = "done" =>
         /\ exit_code = 0
         /\ fs[output_txt] =
              TextFile(CompleteDocument(data, height, width,
                                        [header EXCEPT !.date = Card(FallbackText)]))
         /\ fs[output_txt] =
              TextFile(CompleteDocument(data, height, width,
                                        [header EXCEPT !.date = like]))

\* C4: with DATE-OBS absent the resolver warns and substitutes
\* 2025-08-31T04:24:29.132, the later stages run as usual, and a completed
\* run writes what the same image with that DATE-OBS written out would give.
C4_AbsentDateFallsBack == TakesFallback(NoDate, Card(FallbackText))

C4_Witness ==
  /\ pc = "done"
  /\ header.date = NoDate
  /\ fs[output_txt].lines[1] = [tag |-> "date", c1 |-> 2025, c2 |-> 243, c3 |-> 18367051]

\* C5 (as claimed): an array with two or more axes, at most two of them longer
\* than 1, loads: no LoadError, and a height x width array holding its samples.
C5_SingletonAxesLoad ==
  (pc \notin {"main", "load"}
     /\ Len(hduShape) >= 2
     /\ Cardinality({ i \in 1..Len(hduShape) : hduShape[i] # 1 }) <= 2) =>
    /\ err # "LoadError"
    /\ Loaded
    /\ NPix = Prod(hduShape)

\* C6: a completed run writes, after the date line, the kept pixels in
\* row-major order (index y * width + x), each line carrying the two
\* coordinates and the brightness of that one pixel.
C6_RowMajorLockStep ==
  pc = "done" =>
    LET lines == fs[output_txt].lines
    IN  /\ Len(lines) = 1 + Cardinality(Survivors)
        /\ \A i \in Survivors :
             LET y == (i - 1) \div width
                 x == (i - 1) % width
                 rank == Cardinality({ j \in Survivors : j <= i })
             IN  lines[1 + rank] =
                   [tag |-> "L3",
                    c1 |-> RoundDiv(ra_map[y][x], 100),
                    c2 |-> RoundDiv(dec_map[y][x], 100),
                    c3 |-> RoundDiv(s10_data[y][x].v, 10)]

C6_Witness ==
  /\ pc = "done"
  /\ height # width
  /\ \E i, j, k \in 1..NPix :
       /\ i < j /\ j < k
       /\ i \in Survivors /\ j \notin Survivors /\ k \in Survivors
       /\ (i - 1) \div width # (k - 1) \div width

GridBuilt == pc \in {"convert", "filter", "date", "write", "done"} \/ err = "WriteError"
NoGeometry ==
  ~header.cdelt1.has /\ ~header.cdelt2.has /\ ~header.crpix1.has /\ ~header.crpix2.has

\* C7: coord1 = a1 + (x - (crpix1 - 1)) * cdelt1 and
\* coord2 = a2 + (y - (crpix2 - 1)) * cdelt2 for every pixel, with crpix
\* defaulting to width / 2 and height / 2 and cdelt to 1.0; on a 2 x 2 image
\* with no geometry in the header, pixel (0, 0) is exactly at the anchor.
C7_LinearGrid ==
  GridBuilt =>
    LET cd1 == IF header.cdelt1.has THEN header.cdelt1.v ELSE 100
        cd2 == IF header.cdelt2.has THEN header.cdelt2.v ELSE 100
        cr1 == IF header.crpix1.has THEN header.crpix1.v ELSE 50 * width
        cr2 == IF header.crpix2.has THEN header.crpix2.v ELSE 50 * height
    IN  /\ DOMAIN ra_map = 0..(height - 1)
        /\ DOMAIN dec_map = 0..(height - 1)
        /\ \A y \in 0..(height - 1) :
             /\ DOMAIN ra_map[y] = 0..(width - 1)
             /\ DOMAIN dec_map[y] = 0..(width - 1)
             /\ \A x \in 0..(width - 1) :
                  /\ ra_map[y][x] = 100 * sun.ra + (100 * x - (cr1 - 100)) * cd1
                  /\ dec_map[y][x] = 100 * sun.dec + (100 * y - (cr2 - 100)) * cd2
        /\ (NoGeometry /\ height = 2 /\ width = 2) =>
             /\ ra_map[0][0] = 100 * sun.ra
             /\ dec_map[0][0] = 100 * sun.dec

C7_Witness ==
  /\ pc = "convert"
  /\ NoGeometry
  /\ height = 2 /\ width = 2
  /\ ra_map[0][0] = 100 * sun.ra
  /\ ra_map[1][1] = 100 * sun.ra + 10000

StageNo(p) ==
  CASE p = "load" -> 1
    [] p = "time" -> 2
    [] p = "anchor" -> 3
    [] p = "grid" -> 4
    [] p = "convert" -> 5
    [] p = "filter" -> 6
    [] p = "date" -> 7
    [] p = "write" -> 8
    [] OTHER -> 0

\* C8: the stages run in the order load, time, anchor, grid, convert, filter,
\* date, write, each at most once and only after the one before it succeeded;
\* a failure ends the run at once and nothing runs after the end; the files
\* change only in the write stage, after the seven stages before it.
C8_LinearStages ==
  [][ /\ Ended => UNCHANGED vars
      /\ pc' # pc =>
           \/ pc = "main" /\ pc' \in {"load", "usage"}
           \/ /\ StageNo(pc) >= 1
              /\ \/ StageNo(pc') = StageNo(pc) + 1 /\ err' = "none"
                 \/ pc' \in {"raised", "returned"} /\ err' # "none"
                 \/ pc = "write" /\ pc' = "done" /\ err' = "none"
      /\ err' # "none" => pc' \in {"raised", "returned"}
      /\ fs' # fs => pc = "write" ]_vars

C8_Witness ==
  /\ pc = "returned"
  /\ err = "EphemerisError"
  /\ t # NoTime
  /\ ra_map = <<>>
  /\ fs[output_txt] = NoFile

\* C9 (as claimed): the output path differs from the input path and the file
\* at the input path is never written.
C9_InputNeverModified ==
  (Ended /\ pc # "usage") =>
    /\ output_txt # input_fits
    /\ fs[input_fits].kind # "text"

\* C10: a DATE-OBS card holding the empty string is treated as an absent one:
\* warning, fallback instant, no abort, and the output of the absent case.
C10_EmptyDateFallsBack == TakesFallback(Card(""), NoDate)

C10_Witness ==
  /\ pc = "done"
  /\ header.date = Card("")
  /\ t = FallbackInstant
  /\ fs[output_txt].lines[1].c1 = 2025

====
